---- MODULE Spec2Model ----
(***************************************************************************)
(* Model of the test-case text parser, the format normalizer and the three *)
(* exporters of src/genrator-test.py.                                      *)
(*                                                                         *)
(* A Python string is a sequence of atoms.  An atom is a piece of text     *)
(* that the code never looks inside: the introducer token "Test Case ",    *)
(* the separator ":", a newline, a blank, or a word.  The atoms are chosen *)
(* so that a substring of the concatenated text that the code searches for *)
(* ("Test Case ", "\n\n\n", "Description:", ...) can only begin and end at *)
(* atom boundaries; searching, splitting and replacing on atom sequences   *)
(* is then the same as on the characters.  The one place where the code    *)
(* looks inside an atom is str.strip() at the blank that ends              *)
(* "Test Case "; Strip models it with the atom "Test Case".                *)
(***************************************************************************)
EXTENDS Integers, Sequences, FiniteSets, TLC

\* ---------------------------------------------------------------- bounds
MaxLines == 4      \* lines of a line-structured input text
MaxRaw == 5        \* atoms of a raw input text over newline and a word
MaxFormat == 2     \* successive applications of format_test_cases
MaxTxt == 2        \* atoms of a text saved by one of two concurrent calls

\* ----------------------------------------------------------------- atoms
NL == "\n"
SP == " "
COLON == ":"
TC == "Test Case "
TCs == "Test Case"
RULE == "=================================================="

\* ------------------------------------------------------ string primitives
IsWS(a) == a \in {NL, SP}

RECURSIVE LStrip(_)
LStrip(s) ==
    IF s # <<>> /\ IsWS(Head(s)) THEN LStrip(Tail(s)) ELSE s

RECURSIVE RStrip(_)
RStrip(s) ==
    IF s = <<>> THEN s
    ELSE IF IsWS(s[Len(s)]) THEN RStrip(SubSeq(s, 1, Len(s) - 1))
    ELSE IF s[Len(s)] = TC THEN SubSeq(s, 1, Len(s) - 1) \o <<TCs>>
    ELSE s

\* str.strip()
Strip(s) == RStrip(LStrip(s))

\* str.startswith(p)
StartsWith(s, p) == Len(s) >= Len(p) /\ SubSeq(s, 1, Len(p)) = p

\* p in s
Contains(s, p) ==
    \E i \in 1..(Len(s) - Len(p) + 1) : SubSeq(s, i, i + Len(p) - 1) = p

\* str.find(p) + 1, or 0 when p does not occur
Find(s, p) ==
    IF Contains(s, p)
    THEN CHOOSE i \in 1..(Len(s) - Len(p) + 1) :
            /\ SubSeq(s, i, i + Len(p) - 1) = p
            /\ \A j \in 1..(i - 1) : SubSeq(s, j, j + Len(p) - 1) # p
    ELSE 0

\* str.split(sep): the pieces between the non-overlapping occurrences of
\* sep, found left to right
RECURSIVE Split(_, _)
Split(s, sep) ==
    LET i == Find(s, sep) IN
    IF i = 0 THEN <<s>>
    ELSE <<SubSeq(s, 1, i - 1)>> \o Split(SubSeq(s, i + Len(sep), Len(s)), sep)

\* str.split(sep, 1) on a string that contains sep
Split1(s, sep) ==
    LET i == Find(s, sep) IN
    <<SubSeq(s, 1, i - 1), SubSeq(s, i + Len(sep), Len(s))>>

\* str.replace(old, new): every non-overlapping occurrence, left to right,
\* in one pass; the replacement text is not searched again
RECURSIVE Replace(_, _, _)
Replace(s, old, new) ==
    LET i == Find(s, old) IN
    IF i = 0 THEN s
    ELSE SubSeq(s, 1, i - 1) \o new
         \o Replace(SubSeq(s, i + Len(old), Len(s)), old, new)

\* ------------------------------------------------------------ Python dict
\* A dict is the sequence of its (key, value) entries in insertion order.
DictKeys(d) == {d[i].k : i \in 1..Len(d)}

DictHas(d, key) == key \in DictKeys(d)

\* d.get(key, default)
DictGet(d, key, default) ==
    IF DictHas(d, key)
    THEN d[CHOOSE i \in 1..Len(d) : d[i].k = key].v
    ELSE default

\* d[key] = value
DictSet(d, key, value) ==
    IF DictHas(d, key)
    THEN [i \in 1..Len(d) |->
            IF d[i].k = key THEN [k |-> key, v |-> value] ELSE d[i]]
    ELSE Append(d, [k |-> key, v |-> value])

\* --------------------------------------------------------- parse_test_cases
Title == <<"Title">>

\* One iteration of the loop over the lines; st holds the locals test_cases,
\* current_case and current_field (has_field is FALSE while it is None).
\* "elif current_field:" is a truth test: None and '' both fail it.
ParseLine(st, raw) ==
    LET line == Strip(raw) IN
    IF line = <<>> THEN st
    ELSE IF StartsWith(line, <<TC>>) /\ Contains(line, <<COLON>>)
    THEN [st EXCEPT
            !.test_cases = IF st.current_case # <<>>
                           THEN Append(st.test_cases, st.current_case)
                           ELSE st.test_cases,
            !.current_case =
                <<[k |-> Title, v |-> Strip(Split1(line, <<COLON>>)[2])]>>]
    ELSE IF Contains(line, <<COLON>>)
    THEN LET field == Strip(Split1(line, <<COLON>>)[1])
             value == Strip(Split1(line, <<COLON>>)[2])
         IN [st EXCEPT
                !.current_case = DictSet(st.current_case, field, value),
                !.current_field = field,
                !.has_field = TRUE]
    ELSE IF st.has_field /\ st.current_field # <<>>
    THEN [st EXCEPT
            !.current_case =
                DictSet(st.current_case, st.current_field,
                        DictGet(st.current_case, st.current_field, <<>>)
                        \o <<NL>> \o line)]
    ELSE st

RECURSIVE ParseLines(_, _)
ParseLines(st, lines) ==
    IF lines = <<>> THEN st
    ELSE ParseLines(ParseLine(st, Head(lines)), Tail(lines))

\* the parser with the last record flushed whether or not it holds anything
parse_test_cases_AlwaysFlush(t) ==
    LET st == ParseLines([test_cases |-> <<>>, current_case |-> <<>>,
                          current_field |-> <<>>, has_field |-> FALSE],
                         Split(t, <<NL>>))
    IN Append(st.test_cases, st.current_case)

parse_test_cases(t) ==
    LET st == ParseLines([test_cases |-> <<>>, current_case |-> <<>>,
                          current_field |-> <<>>, has_field |-> FALSE],
                         Split(t, <<NL>>))
    IN IF st.current_case # <<>>
       THEN Append(st.test_cases, st.current_case)
       ELSE st.test_cases

\* -------------------------------------------------------- format_test_cases
Sections ==
    << <<TC, "ID", COLON>>, <<"Description", COLON>>,
       <<"Preconditions", COLON>>, <<"Test Steps", COLON>>,
       <<"Expected Results", COLON>>, <<"Test Data", COLON>> >>

Banner == <<"TEST CASES", NL, RULE, NL, NL>>

\* "Remove any extra newlines"
CollapseNewlines(raw_text) == Replace(raw_text, <<NL, NL, NL>>, <<NL, NL>>)

\* "Ensure consistent formatting"
SeparateTestCases(t) == Replace(t, <<TC>>, <<NL, NL, TC>>)

\* "Add proper spacing for sections": the loop over the first n sections
RECURSIVE SpaceSections(_, _)
SpaceSections(t, n) ==
    IF n = 0 THEN t
    ELSE Replace(SpaceSections(t, n - 1), Sections[n], <<NL>> \o Sections[n])

format_test_cases(raw_text) ==
    Banner \o Strip(SpaceSections(SeparateTestCases(CollapseNewlines(raw_text)),
                                  Len(Sections)))

\* ------------------------------------------------------------ save_as_docx
Heading(t, level) == [style |-> "Heading", level |-> level, bold |-> FALSE, text |-> t]
BoldParagraph(t) == [style |-> "Normal", level |-> 0, bold |-> TRUE, text |-> t]
Paragraph(t) == [style |-> "Normal", level |-> 0, bold |-> FALSE, text |-> t]

\* the paragraph added for one line of a block, if any
RenderSection(section) ==
    IF Strip(section) = <<>> THEN <<>>
    ELSE IF StartsWith(section, <<TC>>) THEN <<Heading(section, 2)>>
    ELSE IF \E i \in 1..Len(Sections) : Contains(section, Sections[i])
    THEN <<BoldParagraph(section)>>
    ELSE <<Paragraph(section)>>

RECURSIVE RenderSections(_)
RenderSections(sections) ==
    IF sections = <<>> THEN <<>>
    ELSE RenderSection(Head(sections)) \o RenderSections(Tail(sections))

\* the body of the loop over the chunks for chunk idx (counted from 0)
RenderChunk(idx, chunk) ==
    IF idx = 0 /\ Strip(chunk) = <<>> THEN <<>>
    ELSE RenderSections(Split(IF idx > 0 THEN <<TC>> \o chunk ELSE chunk,
                              <<NL>>))
         \o <<Paragraph(<<>>)>>

RECURSIVE RenderChunks(_, _)
RenderChunks(chunks, n) ==
    IF n = 0 THEN <<>>
    ELSE RenderChunks(chunks, n - 1) \o RenderChunk(n - 1, chunks[n])

BuildDocument(t) ==
    <<Heading(<<"Test Cases">>, 0)>>
    \o RenderChunks(Split(t, <<NL, NL, TC>>), Len(Split(t, <<NL, NL, TC>>)))

\* ------------------------------------------------------------- save_as_csv
Priority ==
    << Title, <<TC, "ID">>, <<"Description">>, <<"Preconditions">>,
       <<"Test Steps">>, <<"Expected Results">>, <<"Test Data">> >>

InSeq(x, s) == \E i \in 1..Len(s) : s[i] = x

\* fields.update(tc.keys()) over all records
AllKeys(cases) == UNION {DictKeys(cases[i]) : i \in 1..Len(cases)}

\* the orders in which a Python set may be iterated
Orderings(S) ==
    {o \in [1..Cardinality(S) -> S] : \A i, j \in 1..Cardinality(S) :
                                          o[i] = o[j] => i = j}

RECURSIVE NotIn(_, _)
NotIn(s, excluded) ==
    IF s = <<>> THEN <<>>
    ELSE IF InSeq(Head(s), excluded) THEN NotIn(Tail(s), excluded)
    ELSE <<Head(s)>> \o NotIn(Tail(s), excluded)

\* the column list of the priority names alone
FieldnamesPriorityOnly(order) == Priority

\* the column list without the filter on the priority names
FieldnamesUnfiltered(order) == Priority \o order

\* the column list, given the order in which the set of keys is iterated
Fieldnames(order) == Priority \o NotIn(order, Priority)

\* DictWriter: the row of a dict (restval '')
Row(fieldnames, d) ==
    [c \in 1..Len(fieldnames) |-> DictGet(d, fieldnames[c], <<>>)]

\* DictWriter raises ValueError for a dict with a key outside fieldnames
RowsWritable(fieldnames, cases) ==
    \A i \in 1..Len(cases) : \A key \in DictKeys(cases[i]) : InSeq(key, fieldnames)

\* the table in the file after writeheader() and writerows()
CsvTable(fieldnames, cases) ==
    <<fieldnames>> \o [i \in 1..Len(cases) |-> Row(fieldnames, cases[i])]

\* ------------------------------------------------------------ input texts
IntroLogin == <<TC, "1", COLON, SP, "Login">>
IntroLogout == <<TC, "2", COLON, SP, "Logout">>
IdLine == <<TC, "ID", COLON, SP, "TC-001">>
DescLine == <<"Description", COLON, SP, "checks">>
PrioLine == <<"Priority", COLON, SP, "High">>
OwnerLine == <<"Owner", COLON, "Bob">>
NoLabelLine == <<COLON, "v">>
StepLine == <<"go">>
BlankLine == <<>>

LineShapes ==
    {IntroLogin, IntroLogout, IdLine, DescLine, PrioLine, OwnerLine,
     NoLabelLine, StepLine, BlankLine}

RECURSIVE Join(_, _)
Join(lines, sep) ==
    IF lines = <<>> THEN <<>>
    ELSE IF Len(lines) = 1 THEN lines[1]
    ELSE lines[1] \o sep \o Join(Tail(lines), sep)

SeqsUpTo(S, n) == UNION {[1..m -> S] : m \in 0..n}

LineTexts == {Join(ls, <<NL>>) : ls \in SeqsUpTo(LineShapes, MaxLines)}
RawTexts == SeqsUpTo({NL, "go"}, MaxRaw)
Texts == LineTexts \cup RawTexts

\* ------------------------------------------------------------------ state
\* The files of the scratch directory.
TxtPath == "test_cases.txt"
DocxPath == "test_cases.docx"
CsvPath == "test_cases.csv"
ErrorPath == "error.txt"
Paths == {TxtPath, DocxPath, CsvPath, ErrorPath}

Absent == [exists |-> FALSE, data |-> <<>>]
File(data) == [exists |-> TRUE, data |-> data]

Returned(value) == [kind |-> "returned", value |-> value]
Raised == [kind |-> "raised", value |-> "exception"]
NoResult == [kind |-> "none", value |-> "none"]

VARIABLES
    text,        \* the text blob handed to the functions
    pc,          \* the function that has run
    test_cases,  \* the list returned by parse_test_cases
    collapsed,   \* formatted_text after the first statement of format_test_cases
    formatted,   \* the results of the successive format_test_cases calls
    doc,         \* the paragraphs of the Document built by save_as_docx
    files,       \* the scratch directory
    result,      \* what the exporter handed to its caller
    calls        \* the save_as_txt calls that run concurrently

vars == <<text, pc, test_cases, collapsed, formatted, doc, files, result,
          calls>>

Callers == {1, 2}
NoCall == [pc |-> "idle", text |-> <<>>, result |-> NoResult]

Init ==
    /\ text \in Texts
    /\ pc = "start"
    /\ test_cases = <<>>
    /\ collapsed = <<>>
    /\ formatted = <<>>
    /\ doc = <<>>
    /\ files = [p \in Paths |-> Absent]
    /\ result = NoResult
    /\ calls = [c \in Callers |-> NoCall]

ParseTestCases ==
    /\ pc = "start"
    /\ pc' = "parsed"
    /\ test_cases' = parse_test_cases(text)
    /\ UNCHANGED <<text, collapsed, formatted, doc, files, result, calls>>

\* format_test_cases on the text, then on its own result
FormatTestCases ==
    /\ pc \in {"start", "formatted"}
    /\ Len(formatted) < MaxFormat
    /\ LET raw_text == IF formatted = <<>> THEN text
                       ELSE formatted[Len(formatted)]
       IN /\ collapsed' = CollapseNewlines(raw_text)
          /\ formatted' = Append(formatted, format_test_cases(raw_text))
    /\ pc' = "formatted"
    /\ UNCHANGED <<text, test_cases, doc, files, result, calls>>

\* The except branch of save_as_txt and save_as_docx: open error.txt and
\* write the message; an open that fails there is not caught.
WriteError(message, error_ok) ==
    IF error_ok
    THEN /\ files' = [files EXCEPT ![ErrorPath] = File(<<message>>)]
         /\ result' = Returned(ErrorPath)
    ELSE /\ files' = files
         /\ result' = Raised

SaveAsTxt ==
    /\ pc = "start"
    /\ pc' = "txt"
    /\ \E io_ok, error_ok \in BOOLEAN :
          IF io_ok
          THEN /\ files' = [files EXCEPT ![TxtPath] = File(text)]
               /\ result' = Returned(TxtPath)
          ELSE WriteError("Error saving text: ", error_ok)
    /\ UNCHANGED <<text, test_cases, collapsed, formatted, doc, calls>>

SaveAsDocx ==
    /\ pc = "start"
    /\ pc' = "docx"
    /\ doc' = BuildDocument(text)
    /\ \E io_ok, error_ok \in BOOLEAN :
          IF io_ok
          THEN /\ files' = [files EXCEPT ![DocxPath] = File(doc')]
               /\ result' = Returned(DocxPath)
          ELSE WriteError("Error generating DOCX: ", error_ok)
    /\ UNCHANGED <<text, test_cases, collapsed, formatted, calls>>

SaveAsCsv ==
    /\ pc = "start"
    /\ pc' = "csv"
    /\ test_cases' = parse_test_cases(text)
    /\ \E io_ok \in BOOLEAN : \E order \in Orderings(AllKeys(test_cases')) :
          IF ~io_ok
          THEN /\ files' = files
               /\ result' = Returned("Error saving CSV: ")
          ELSE IF ~RowsWritable(Fieldnames(order), test_cases')
          THEN /\ files' = [files EXCEPT ![CsvPath] = File(<<Fieldnames(order)>>)]
               /\ result' = Returned("Error saving CSV: ")
          ELSE /\ files' = [files EXCEPT ![CsvPath] =
                               File(CsvTable(Fieldnames(order), test_cases'))]
               /\ result' = Returned(CsvPath)
    /\ UNCHANGED <<text, collapsed, formatted, doc, calls>>

Next ==
    \/ ParseTestCases
    \/ FormatTestCases
    \/ SaveAsTxt
    \/ SaveAsDocx
    \/ SaveAsCsv

Spec == Init /\ [][Next]_vars

\* ------------------------------------------- two concurrent save_as_txt calls
\* Two calls of save_as_txt with the same file_name and different texts, as
\* two requests of the interface make them.  Each call opens the file for
\* writing, which creates or truncates it and puts the position of its own
\* file object at 0; f.write leaves the text in the buffer of the file
\* object; leaving the with block closes the file object, which writes the
\* buffer at its position and cuts nothing off behind it.
RaceTexts == SeqsUpTo({"a", "b"}, MaxTxt)

InitRace ==
    /\ text = <<>>
    /\ pc = "start"
    /\ test_cases = <<>>
    /\ collapsed = <<>>
    /\ formatted = <<>>
    /\ doc = <<>>
    /\ files = [p \in Paths |-> Absent]
    /\ result = NoResult
    /\ \E t1, t2 \in RaceTexts :
          /\ t1 # t2
          /\ calls = [c \in Callers |->
                        [pc |-> "call", text |-> IF c = 1 THEN t1 ELSE t2,
                         result |-> NoResult]]

\* the data of a file after buffer is written at position 0
WriteAtStart(data, buffer) ==
    buffer \o SubSeq(data, Len(buffer) + 1, Len(data))

Others == <<text, pc, test_cases, collapsed, formatted, doc, result>>

\* open(file_path, 'w', encoding='utf-8')
TxtOpen(c) ==
    /\ calls[c].pc = "call"
    /\ files' = [files EXCEPT ![TxtPath] = File(<<>>)]
    /\ calls' = [calls EXCEPT ![c].pc = "open"]
    /\ UNCHANGED Others

\* f.write(text)
TxtWrite(c) ==
    /\ calls[c].pc = "open"
    /\ calls' = [calls EXCEPT ![c].pc = "written"]
    /\ UNCHANGED <<files, Others>>

\* the end of the with block
TxtClose(c) ==
    /\ calls[c].pc = "written"
    /\ files' = [files EXCEPT ![TxtPath] =
                    File(WriteAtStart(files[TxtPath].data, calls[c].text))]
    /\ calls' = [calls EXCEPT ![c].pc = "closed"]
    /\ UNCHANGED Others

\* return file_path
TxtReturn(c) ==
    /\ calls[c].pc = "closed"
    /\ calls' = [calls EXCEPT ![c].pc = "returned",
                              ![c].result = Returned(TxtPath)]
    /\ UNCHANGED <<files, Others>>

NextRace ==
    \E c \in Callers :
        \/ TxtOpen(c)
        \/ TxtWrite(c)
        \/ TxtClose(c)
        \/ TxtReturn(c)

SpecRace == InitRace /\ [][NextRace]_vars

\* ================================================================ claims
Lines(t) == Split(t, <<NL>>)
Last(s) == s[Len(s)]

\* `Test Case K: Title`
IsIntroducerLine(l) ==
    Len(l) >= 3 /\ l[1] = TC /\ l[2] \in {"1", "2"} /\ l[3] = COLON

LabelOf(l) == Strip(Split1(l, <<COLON>>)[1])
ValueOf(l) == Strip(Split1(l, <<COLON>>)[2])

\* `Label: value` with a label
IsLabelLine(l) ==
    Contains(l, <<COLON>>) /\ ~IsIntroducerLine(l) /\ LabelOf(l) # <<>>

\* a non-blank line without ':'
IsPlainLine(l) == Strip(l) # <<>> /\ ~Contains(l, <<COLON>>)

WellFormed(t) ==
    /\ IsIntroducerLine(Lines(t)[1])
    /\ \A i \in 1..Len(Lines(t)) :
          IsIntroducerLine(Lines(t)[i]) \/ IsLabelLine(Lines(t)[i])

\* the records of a well-formed text, block by block
RECURSIVE BlockRecords(_, _, _)
BlockRecords(ls, done, cur) ==
    IF ls = <<>> THEN Append(done, cur)
    ELSE IF IsIntroducerLine(Head(ls))
    THEN BlockRecords(Tail(ls),
                      IF cur = <<>> THEN done ELSE Append(done, cur),
                      <<[k |-> Title, v |-> ValueOf(Head(ls))]>>)
    ELSE BlockRecords(Tail(ls), done,
                      DictSet(cur, LabelOf(Head(ls)), ValueOf(Head(ls))))

\* C1: for a text of well-formed blocks (a `Test Case K: Title` line followed
\* by `Label: value` lines, `Test Case ID` among the labels) parse_test_cases
\* returns one record per block, in source order, with the title of the
\* introducer line and every label mapped to its trimmed value.
C1_OneRecordPerBlock ==
    (pc = "parsed" /\ WellFormed(text))
        => test_cases = BlockRecords(Lines(text), <<>>, <<>>)

RECURSIVE JoinContinuation(_, _)
JoinContinuation(v, ls) ==
    IF ls = <<>> THEN v
    ELSE JoinContinuation(v \o <<NL>> \o Strip(Head(ls)), Tail(ls))

\* the line is handled by the field branch of the parser
IsFieldLine(l) ==
    Contains(l, <<COLON>>) /\ ~StartsWith(Strip(l), <<TC>>)

\* the line is handled by the introducer branch of the parser
IsRecordStart(l) ==
    Contains(l, <<COLON>>) /\ StartsWith(Strip(l), <<TC>>)

OnlyPlainAfter(t, p) ==
    /\ p < Len(Lines(t))
    /\ \A q \in (p + 1)..Len(Lines(t)) : IsPlainLine(Lines(t)[q])

\* C2: a field line `L: v` followed by N non-blank lines without ':' stores
\* for L, in the current record, v followed by a line break and the trimmed
\* content of each of the N lines, in order.
C2_ContinuationAppended ==
    pc = "parsed" =>
        \A p \in 1..Len(Lines(text)) :
            (IsFieldLine(Lines(text)[p]) /\ OnlyPlainAfter(text, p))
                => /\ test_cases # <<>>
                   /\ DictHas(Last(test_cases), LabelOf(Lines(text)[p]))
                   /\ DictGet(Last(test_cases), LabelOf(Lines(text)[p]), <<>>)
                        = JoinContinuation(
                              ValueOf(Lines(text)[p]),
                              SubSeq(Lines(text), p + 1, Len(Lines(text))))

\* C3: continuation ends at a record-introducer line: lines without ':' that
\* follow an introducer line are attached to no field of the new record,
\* which therefore has an empty field mapping.
C3_ContinuationEndsAtIntroducer ==
    pc = "parsed" =>
        \A p \in 1..Len(Lines(text)) :
            (IsRecordStart(Lines(text)[p]) /\ OnlyPlainAfter(text, p))
                => /\ test_cases # <<>>
                   /\ Last(test_cases)
                        = <<[k |-> Title, v |-> ValueOf(Strip(Lines(text)[p]))]>>

IntendedPath ==
    IF pc = "txt" THEN TxtPath ELSE IF pc = "docx" THEN DocxPath ELSE CsvPath

\* C4: an exporter (save_as_txt, save_as_docx, save_as_csv) that fails to
\* write the intended file writes a diagnostic message to the shared
\* error.txt and returns the path of that file, so the caller always gets a
\* file path.
C4_FailureReturnsErrorFile ==
    (pc \in {"txt", "docx", "csv"} /\ result # Returned(IntendedPath))
        => /\ result = Returned(ErrorPath)
           /\ files[ErrorPath].exists
           /\ files[ErrorPath].data # <<>>

\* C5: format_test_cases applied twice gives the body of one application with
\* one more copy of the banner in front (white space at the end of the text
\* is not counted as a difference).
C5_FormatTwiceAddsOnlyBanner ==
    Len(formatted) >= 2 => Strip(formatted[2]) = Strip(Banner \o formatted[1])

NewlineRun(n) == [i \in 1..(IF n >= 3 THEN 2 ELSE n) |-> NL]

\* every run of three or more newlines replaced by two; run counts the
\* newlines read since the last other atom
RECURSIVE SqueezeRuns(_, _)
SqueezeRuns(s, run) ==
    IF s = <<>> THEN NewlineRun(run)
    ELSE IF Head(s) = NL THEN SqueezeRuns(Tail(s), run + 1)
    ELSE NewlineRun(run) \o <<Head(s)>> \o SqueezeRuns(Tail(s), 0)

\* C6: the first step of format_test_cases turns every run of three or more
\* consecutive newlines of the input, whatever its length, into exactly two.
C6_RunsCollapsedToTwo ==
    (pc = "formatted" /\ Len(formatted) = 1)
        => collapsed = SqueezeRuns(text, 0)

\* the first paragraph of every block of the document: the paragraph after
\* the document title or after the blank paragraph that closes a block
RECURSIVE BlockStarts(_, _)
BlockStarts(d, i) ==
    IF i > Len(d) THEN <<>>
    ELSE IF d[i].text # <<>> /\ (i = 2 \/ d[i - 1].text = <<>>)
    THEN <<d[i].text>> \o BlockStarts(d, i + 1)
    ELSE BlockStarts(d, i + 1)

\* the record that the parser starts at this line starts the record rec
StartsRecord(line, rec) ==
    /\ parse_test_cases(line) # <<>>
    /\ parse_test_cases(line)[1][1].k = rec[1].k
    /\ rec[1].k = Title => parse_test_cases(line)[1][1].v = rec[1].v

\* C7: the blocks of save_as_docx (the chunks between "\n\nTest Case ", an
\* empty leading chunk skipped) are the records of parse_test_cases on the
\* same text: as many blocks as records, each starting at the same line.
C7_DocxBlocksAreParserRecords ==
    pc = "docx" =>
        /\ Len(BlockStarts(doc, 2)) = Len(parse_test_cases(text))
        /\ \A i \in 1..Len(BlockStarts(doc, 2)) :
              StartsRecord(BlockStarts(doc, 2)[i], parse_test_cases(text)[i])

CarriesSectionLabel(l) == \E i \in 1..Len(Sections) : Contains(l, Sections[i])

\* the three renderings: heading for `Test Case N: Title`, bold for a line
\* with a section label, plain otherwise
RECURSIVE ThreeWayRendering(_)
ThreeWayRendering(ls) ==
    IF ls = <<>> THEN <<>>
    ELSE (IF Strip(Head(ls)) = <<>> THEN <<>>
          ELSE IF IsIntroducerLine(Head(ls)) THEN <<Heading(Head(ls), 2)>>
          ELSE IF CarriesSectionLabel(Head(ls)) THEN <<BoldParagraph(Head(ls))>>
          ELSE <<Paragraph(Head(ls))>>)
         \o ThreeWayRendering(Tail(ls))

RECURSIVE NonBlank(_)
NonBlank(d) ==
    IF d = <<>> THEN <<>>
    ELSE IF Head(d).text = <<>> THEN NonBlank(Tail(d))
    ELSE <<Head(d)>> \o NonBlank(Tail(d))

\* C8: save_as_docx renders every non-empty line in exactly one of three
\* ways: a `Test Case N: Title` line as a level-2 heading, a line with one of
\* the six section labels as a bold paragraph, any other line as a plain
\* paragraph; a `Test Case ID: ...` line is bold, not a heading.
C8_ThreeRenderings ==
    pc = "docx" => NonBlank(Tail(doc)) = ThreeWayRendering(Lines(text))

CsvWritten == pc = "csv" /\ result = Returned(CsvPath)
Header == files[CsvPath].data[1]

\* C9: the header row written by save_as_csv begins with Title, Test Case ID,
\* Description, Preconditions, Test Steps, Expected Results, Test Data in
\* that order, whichever fields the records have, and none of the seven
\* names appears again later in the header.
C9_PriorityColumnsFirst ==
    CsvWritten =>
        /\ Len(Header) >= Len(Priority)
        /\ SubSeq(Header, 1, Len(Priority)) = Priority
        /\ \A c \in (Len(Priority) + 1)..Len(Header) : ~InSeq(Header[c], Priority)

\* a header with two more columns, written for records of which one has no
\* Description and none has a Test Case ID
C9_Witness ==
    /\ CsvWritten
    /\ Len(Header) >= Len(Priority) + 2
    /\ \E i \in 1..Len(test_cases) : ~DictHas(test_cases[i], <<"Description">>)
    /\ \E i \in 1..Len(test_cases) : DictHas(test_cases[i], <<"Description">>)

\* the keys of the records in the order in which they are first met
RECURSIVE FirstEncountered(_, _)
FirstEncountered(entries, seen) ==
    IF entries = <<>> THEN <<>>
    ELSE IF InSeq(Head(entries).k, seen)
    THEN FirstEncountered(Tail(entries), seen)
    ELSE <<Head(entries).k>>
         \o FirstEncountered(Tail(entries), Append(seen, Head(entries).k))

RECURSIVE Flatten(_)
Flatten(ss) == IF ss = <<>> THEN <<>> ELSE Head(ss) \o Flatten(Tail(ss))

\* C10: the columns after the seven priority columns are the non-priority
\* field names of the records, each once, in the order in which they are
\* first encountered across the records.
C10_ExtraColumnsInEncounterOrder ==
    CsvWritten =>
        SubSeq(Header, Len(Priority) + 1, Len(Header))
            = FirstEncountered(Flatten(test_cases), Priority)

CsvRows == Tail(files[CsvPath].data)

\* the export ended in the except branch although the file was opened
CsvRowsRejected ==
    pc = "csv" /\ files[CsvPath].exists /\ result # Returned(CsvPath)

\* C11: save_as_csv writes one data row per record of parse_test_cases, in
\* record order; a cell holds the record's value for its column and is empty
\* when the record lacks the field; no set of fields of a record sends the
\* export down its error branch.
C11_OneRowPerRecord ==
    /\ ~CsvRowsRejected
    /\ CsvWritten =>
          /\ test_cases = parse_test_cases(text)
          /\ Len(CsvRows) = Len(test_cases)
          /\ \A i \in 1..Len(CsvRows) :
                /\ Len(CsvRows[i]) = Len(Header)
                /\ \A c \in 1..Len(Header) :
                      LET rec == test_cases[i] IN
                      IF DictHas(rec, Header[c])
                      THEN \E e \in 1..Len(rec) :
                              rec[e].k = Header[c] /\ rec[e].v = CsvRows[i][c]
                      ELSE CsvRows[i][c] = <<>>

\* two rows, one with a Description and one with an empty Description cell,
\* and a column outside the priority names
C11_Witness ==
    /\ CsvWritten
    /\ Len(CsvRows) >= 2
    /\ Len(Header) > Len(Priority)
    /\ \E i, j \in 1..Len(CsvRows) : CsvRows[i][3] = <<>> /\ CsvRows[j][3] # <<>>

IsBlankText(t) == \A i \in 1..Len(t) : IsWS(t[i])

\* C12: parse_test_cases on the empty string, and on text of blank lines
\* only, returns the empty list; save_as_csv on such text, when it can write
\* the file, writes the header row alone and returns the path of the file.
C12_EmptyInput ==
    IsBlankText(text) =>
        /\ pc \in {"parsed", "csv"} => test_cases = <<>>
        /\ (pc = "csv" /\ files[CsvPath].exists) =>
              /\ result = Returned(CsvPath)
              /\ files[CsvPath].data = <<Priority>>

\* the header-only file written for a text of blank lines
C12_Witness ==
    /\ IsBlankText(text)
    /\ Len(text) >= 2
    /\ CsvWritten
    /\ test_cases = <<>>
    /\ files[CsvPath].data = <<Priority>>

\* C13: every record returned by parse_test_cases has a Title entry, for
\* every input text, also when `Label: value` lines come before the first
\* introducer line.
C13_EveryRecordHasTitle ==
    pc \in {"parsed", "csv"} =>
        \A i \in 1..Len(test_cases) : DictHas(test_cases[i], Title)

BothReturned == \A c \in Callers : calls[c].pc = "returned"

\* C14: after two concurrent save_as_txt calls with the same file_name and
\* different texts have returned, the file holds the complete text of one of
\* the two calls, never a mixture, and both calls have returned the same
\* path.
C14_LastWriterWins ==
    BothReturned =>
        /\ files[TxtPath].data \in {calls[c].text : c \in Callers}
        /\ \A c \in Callers : calls[c].result = Returned(TxtPath)
====
